---- MODULE Spec2Model ----
(***************************************************************************)
(* PrayerPI: a Monte Carlo path tracer.                                    *)
(*   src/src/obj.rs   the OBJ mesh loader (load, parse_vec3, parse_uv,     *)
(*                    parse_triangle, index_wrap)                          *)
(*   src/src/main.rs  the integrator (trace) and the sampling driver (main)*)
(* Three specifications, one per component: SpecLoad, SpecTrace and        *)
(* SpecRender.  Each leaves the variables of the other two untouched.      *)
(***************************************************************************)
EXTENDS Integers, Sequences, FiniteSets, TLC

VARIABLES
    \* obj.rs, load: the four vectors, and where the loop over lines stands
    verts, coords, norms, tris,
    loadPc,      \* "line" | "face" | "ok" (Ok(tris) returned) | "panic"
    nLines,      \* lines consumed so far
    faceAcc,     \* (pos, coord, norm) tuples the face's iterator yielded so far
    \* history of the load, kept for the properties only
    faceIdx,     \* the parsed indices of the references the face has yielded
    trisSrc,     \* per triangle of tris: the indices and list lengths of its face
    lastRef,     \* the last vertex reference evaluated: its index_wrap calls
    lastFace,    \* how the last face line ended
    lastRec,     \* the last v / vt / vn record and whether it was pushed
    \* main.rs, trace: the recursion as a stack of suspended calls
    trPc,        \* "call" (a call is entered) | "ret" (a call has returned) | "done"
    trDepth,     \* the depth argument of the call being entered
    trStack,     \* the calls suspended at line 37, outermost first
    trRet,       \* the value the last call returned
    \* history of the trace, kept for the properties only
    trD0,        \* the depth of the outermost call
    trCalls,     \* calls of trace entered so far
    trQueries,   \* calls of scene.trace made so far
    trSteps,     \* steps taken so far
    trFirst,     \* what the outermost call met: [hit, mat]
    \* main.rs, main: the sampling driver on rayon's worker threads
    imgW, imgH,  \* w and h
    rng,         \* per worker thread: the state of its thread-local generator
    thr,         \* per worker thread: the sample closure it is inside of, if any
    pix,         \* per pixel index: "todo" | "sampling" | "done"
    nStarted,    \* per pixel index: sample closures entered
    nDone,       \* per pixel index: sample closures finished
    sum,         \* per pixel index: the sum of the finished samples
    segs,        \* the collected runs of pixels: [lo, hi, bytes]
    buffer,      \* the collected Vec<u8>, once complete
    renderPc,    \* "render" | "saved"
    \* history of the render, kept for the properties only
    pixBytes,    \* per pixel index: the vec![r, g, b] its closure returned
    genTasks,    \* per generator: sample closures that drew from it (0, 1, 2 = more)
    prevBuffer   \* the buffer of the previous render of this configuration

loadVars == <<verts, coords, norms, tris, loadPc, nLines, faceAcc,
              faceIdx, trisSrc, lastRef, lastFace, lastRec>>

traceVars == <<trPc, trDepth, trStack, trRet, trD0, trCalls, trQueries,
               trSteps, trFirst>>

renderVars == <<imgW, imgH, rng, thr, pix, nStarted, nDone, sum, segs, buffer,
                renderPc, pixBytes, genTasks, prevBuffer>>

vars == <<loadVars, traceVars, renderVars>>

notLoadVars == <<traceVars, renderVars>>
notTraceVars == <<loadVars, renderVars>>
notRenderVars == <<loadVars, traceVars>>

----------------------------------------------------------------------------
(* Bounds *)

MaxLines == 3        \* lines of the mesh file
MaxTokens == 4       \* numeric tokens on a v / vt / vn line
MaxDepth == 3        \* the depth the outermost trace call is given
MaxPixels == 2       \* w * h (800 * 800 in main)
ss == 2              \* samples per pixel (200 in main)

----------------------------------------------------------------------------
(* Option<T> is a sequence of length 0 (None) or 1 (Some) *)

None == <<>>
Some(x) == <<x>>
IsSome(o) == Len(o) = 1
Unwrap(o) == o[1]

\* usize::MAX.  TLC's integers are 32 bits wide: the largest of them stands
\* for 2^64 - 1; it is only ever compared with the length of a vector.
UsizeMax == 2147483647

----------------------------------------------------------------------------
(* trace (main.rs).  Radiance is a Vec3 of integers (fixed-point f32).      *)
(* Scene::trace, Material::bounce and Material::brdf belong to modules that *)
(* are not part of the sources at hand: the scene answers a query with a    *)
(* hit on any material or with no hit, and a material yields any sample of  *)
(* BounceSamples, whose pdf is positive.                                    *)

Zero3 == <<0, 0, 0>>                    \* glm::zero::<Vec3>()
Add3(a, b) == <<a[1] + b[1], a[2] + b[2], a[3] + b[3]>>
Mul3(a, b) == <<a[1] * b[1], a[2] * b[2], a[3] * b[3]>>   \* component_mul
Scale3(a, k) == <<a[1] * k, a[2] * k, a[3] * k>>
Div3(a, k) == <<a[1] \div k, a[2] \div k, a[3] \div k>>

Materials ==
    { [color |-> <<1, 1, 1>>, metalness |-> 0, emission |-> <<10, 10, 10>>],
      [color |-> <<1, 0, 0>>, metalness |-> 0, emission |-> Zero3],
      [color |-> <<1, 1, 0>>, metalness |-> 1, emission |-> <<0, 0, 2>>] }

\* material.bounce gives (bounce, pdf), material.brdf gives (brdf, ks);
\* costheta is max(dot(n, bounce.direction), 0)
BounceSamples ==
    { [costheta |-> 0, pdf |-> 1, brdf |-> 0, ks |-> 0],
      [costheta |-> 1, pdf |-> 1, brdf |-> 1, ks |-> 1],
      [costheta |-> 1, pdf |-> 2, brdf |-> 0, ks |-> 1],
      [costheta |-> 2, pdf |-> 1, brdf |-> 1, ks |-> 0] }

\* the sky: (1 - t) * white + t * azure with t = 0.5 * (dir.y + 1), for a
\* normalised direction with dir.y in {-1, 0, 1}; in units of 1/20
Sky(y) ==
    LET white == <<20, 20, 20>>
        azure == <<10, 14, 20>>
    IN Div3(Add3(Scale3(white, 1 - y), Scale3(azure, y + 1)), 2)

\* mutant of Shade: the emission is added before the incident radiance is
\* applied, so it is scaled with the reflected term
Shade_scaled(mat, smp, incident) ==
    LET lambert == mat.color
        kd == 1 - smp.ks * (1 - mat.metalness)
        refl == Add3(Scale3(lambert, kd), <<smp.brdf, smp.brdf, smp.brdf>>)
    IN Div3(Scale3(Mul3(refl, Add3(incident, mat.emission)), smp.costheta), smp.pdf)

\* lines 32-42: reflectance + material.emission
Shade(mat, smp, incident) ==
    LET lambert == mat.color
        kd == 1 - smp.ks * (1 - mat.metalness)
        refl == Add3(Scale3(lambert, kd), <<smp.brdf, smp.brdf, smp.brdf>>)
        reflectance == Div3(Scale3(Mul3(refl, incident), smp.costheta), smp.pdf)
    IN Add3(reflectance, mat.emission)

\* mutant of BounceDepth: the recursion keeps its depth
BounceDepth_same(depth) == depth

\* the depth of the recursive call of line 37
BounceDepth(depth) == depth - 1

NoFirst == [hit |-> FALSE, mat |-> [color |-> Zero3, metalness |-> 0, emission |-> Zero3]]

\* no trace is running
TraceIdle ==
    /\ trPc = "done" /\ trDepth = 0 /\ trStack = <<>> /\ trRet = Zero3
    /\ trD0 = 0 /\ trCalls = 0 /\ trQueries = 0 /\ trSteps = 0
    /\ trFirst = NoFirst

\* trace(r, scene, d) is called
TraceInit ==
    /\ trD0 \in 0..MaxDepth
    /\ trPc = "call" /\ trDepth = trD0 /\ trStack = <<>> /\ trRet = Zero3
    /\ trCalls = 1 /\ trQueries = 0 /\ trSteps = 0
    /\ trFirst = NoFirst

\* if depth == 0 { return glm::zero(); }
TraceDepth0 ==
    /\ trPc = "call"
    /\ trDepth = 0
    /\ trRet' = Zero3
    /\ trPc' = "ret"
    /\ trSteps' = trSteps + 1
    /\ UNCHANGED <<trDepth, trStack, trD0, trCalls, trQueries, trFirst>>
    /\ UNCHANGED notTraceVars

\* scene.trace(..) is None: the sky colour of the ray's direction
TraceMiss ==
    /\ trPc = "call"
    /\ trDepth # 0
    /\ trQueries' = trQueries + 1
    /\ \E y \in {-1, 0, 1} : trRet' = Sky(y)
    /\ trPc' = "ret"
    /\ trSteps' = trSteps + 1
    /\ UNCHANGED <<trDepth, trStack, trD0, trCalls, trFirst>>
    /\ UNCHANGED notTraceVars

\* scene.trace(..) is Some(result): the material is sampled and trace calls
\* itself on the bounce ray (line 37)
TraceHit ==
    /\ trPc = "call"
    /\ trDepth # 0
    /\ trQueries' = trQueries + 1
    /\ \E mat \in Materials, smp \in BounceSamples :
         /\ trStack' = Append(trStack, [depth |-> trDepth, mat |-> mat, smp |-> smp])
         /\ trFirst' = IF trStack = <<>> THEN [hit |-> TRUE, mat |-> mat] ELSE trFirst
    /\ trDepth' = BounceDepth(trDepth)
    /\ trCalls' = trCalls + 1
    /\ trSteps' = trSteps + 1
    /\ UNCHANGED <<trPc, trRet, trD0>>
    /\ UNCHANGED notTraceVars

\* the recursive call returns `incident`: lines 38-42 of the suspended call
TraceResume ==
    /\ trPc = "ret"
    /\ trStack # <<>>
    /\ LET f == trStack[Len(trStack)]
       IN /\ trRet' = Shade(f.mat, f.smp, trRet)
          /\ trDepth' = f.depth
    /\ trStack' = SubSeq(trStack, 1, Len(trStack) - 1)
    /\ trSteps' = trSteps + 1
    /\ UNCHANGED <<trPc, trD0, trCalls, trQueries, trFirst>>
    /\ UNCHANGED notTraceVars

\* the outermost call returns
TraceDone ==
    /\ trPc = "ret"
    /\ trStack = <<>>
    /\ trPc' = "done"
    /\ trSteps' = trSteps + 1
    /\ UNCHANGED <<trDepth, trStack, trRet, trD0, trCalls, trQueries, trFirst>>
    /\ UNCHANGED notTraceVars

TraceNext ==
    TraceDepth0 \/ TraceMiss \/ TraceHit \/ TraceResume \/ TraceDone

----------------------------------------------------------------------------
(* main (main.rs): the sampling driver.  (0..w*h).into_par_iter() runs one  *)
(* closure per pixel index, each of which runs (0..ss).into_par_iter() with *)
(* one closure per sample, on the worker threads of rayon's pool.  A thread *)
(* runs a sample closure to its end; a pixel closure that waits for its sum *)
(* lets its thread run other jobs.                                          *)

Threads == {1, 2}                       \* rayon's worker threads
RngStates == 0..2                       \* the states of a generator
NoSample == [pixel |-> -1, rand |-> 0]

\* rng.gen(): the value drawn in state s, and the state after
RngOut(s) == s % 2
RngStep(s) == (s + 1) % 3

\* rand::thread_rng(): the generator of the calling thread
RngOf(t) == t

\* trace(&camera.ray_at(u, v), &scene, 3) for u = (x + ru) / w and
\* v = (y + rv) / h: a fixed function of the jittered pixel coordinates
Radiance(x, y, ru, rv) == <<(x + ru) % 2, (y + rv) % 2, 1>>

\* (clamp(c.powf(1.0 / gamma), 0.0, 1.0) * 255.99) as u8 for c = s / ss,
\* gamma = 2.2
GammaByte(s) ==
    CASE s <= 0      -> 0
      [] s >= ss     -> 255
      [] 4 * s = ss     -> 136
      [] 3 * s = ss     -> 155
      [] 2 * s = ss     -> 186
      [] 3 * s = 2 * ss -> 212
      [] 4 * s = 3 * ss -> 224

\* the vec![..] of lines 178-182
PixelVec(color) == <<GammaByte(color[1]), GammaByte(color[2]), GammaByte(color[3])>>

\* mutant of Combine: the reducer appends the left run to the right one
Combine_swapped(a, b) ==
    [lo |-> a.lo, hi |-> b.hi, bytes |-> b.bytes \o a.bytes]

\* collect: two adjacent runs of items are appended, the left one first
Combine(a, b) ==
    [lo |-> a.lo, hi |-> b.hi, bytes |-> a.bytes \o b.bytes]

nPixels == imgW * imgH
Pixels == 0..(nPixels - 1)

\* no render is running
RenderIdle ==
    /\ imgW = 0 /\ imgH = 0
    /\ rng = [t \in Threads |-> 0]
    /\ thr = [t \in Threads |-> NoSample]
    /\ pix = <<>> /\ nStarted = <<>> /\ nDone = <<>> /\ sum = <<>>
    /\ segs = {} /\ buffer = <<>> /\ renderPc = "saved"
    /\ pixBytes = <<>> /\ genTasks = [t \in Threads |-> 0]
    /\ prevBuffer = <<>>

\* the state of a render of w x h pixels about to start
RenderStart(w, h) ==
    /\ imgW = w /\ imgH = h
    /\ rng \in [Threads -> RngStates]       \* seeded from the system's entropy
    /\ thr = [t \in Threads |-> NoSample]
    /\ pix = [i \in 0..(w * h - 1) |-> "todo"]
    /\ nStarted = [i \in 0..(w * h - 1) |-> 0]
    /\ nDone = [i \in 0..(w * h - 1) |-> 0]
    /\ sum = [i \in 0..(w * h - 1) |-> Zero3]
    /\ segs = {} /\ buffer = <<>> /\ renderPc = "render"
    /\ pixBytes = [i \in 0..(w * h - 1) |-> <<>>]
    /\ genTasks = [t \in Threads |-> 0]

RenderInit ==
    /\ \E w \in 1..MaxPixels, h \in 1..MaxPixels :
          /\ w * h <= MaxPixels
          /\ RenderStart(w, h)
    /\ prevBuffer = <<>>

Free(t) == thr[t] = NoSample

\* a pixel closure is entered (lines 163-166): its samples become jobs
PixelStart ==
    /\ renderPc = "render"
    /\ \E t \in Threads : Free(t)
    /\ \E i \in Pixels :
         /\ pix[i] = "todo"
         /\ pix' = [pix EXCEPT ![i] = "sampling"]
    /\ UNCHANGED <<imgW, imgH, rng, thr, nStarted, nDone, sum, segs, buffer,
                   renderPc, pixBytes, genTasks, prevBuffer>>
    /\ UNCHANGED notRenderVars

\* a thread enters a sample closure (lines 168-170): the first draw
SampleBegin ==
    /\ renderPc = "render"
    /\ \E t \in Threads, i \in Pixels :
         /\ Free(t)
         /\ pix[i] = "sampling"
         /\ nStarted[i] < ss
         /\ LET g == RngOf(t)
            IN /\ thr' = [thr EXCEPT ![t] = [pixel |-> i, rand |-> RngOut(rng[g])]]
               /\ rng' = [rng EXCEPT ![g] = RngStep(rng[g])]
               /\ genTasks' = [genTasks EXCEPT ![g] = IF @ = 0 THEN 1 ELSE 2]
         /\ nStarted' = [nStarted EXCEPT ![i] = @ + 1]
    /\ UNCHANGED <<imgW, imgH, pix, nDone, sum, segs, buffer, renderPc, pixBytes,
                   prevBuffer>>
    /\ UNCHANGED notRenderVars

\* the thread finishes its sample closure (lines 171-174): the second draw,
\* the trace, and the sample joins the pixel's sum
SampleEnd ==
    /\ renderPc = "render"
    /\ \E t \in Threads :
         /\ ~Free(t)
         /\ LET g == RngOf(t)
                i == thr[t].pixel
                x == i % imgW
                y == i \div imgW
                c == Radiance(x, y, thr[t].rand, RngOut(rng[g]))
            IN /\ rng' = [rng EXCEPT ![g] = RngStep(rng[g])]
               /\ sum' = [sum EXCEPT ![i] = Add3(@, c)]
               /\ nDone' = [nDone EXCEPT ![i] = @ + 1]
         /\ thr' = [thr EXCEPT ![t] = NoSample]
    /\ UNCHANGED <<imgW, imgH, pix, nStarted, segs, buffer, renderPc, pixBytes,
                   genTasks, prevBuffer>>
    /\ UNCHANGED notRenderVars

\* the sum of a pixel is complete (lines 176-182): the closure returns its
\* three bytes, a run of one pixel
PixelEnd ==
    /\ renderPc = "render"
    /\ \E t \in Threads : Free(t)
    /\ \E i \in Pixels :
         /\ pix[i] = "sampling"
         /\ nDone[i] = ss
         /\ pix' = [pix EXCEPT ![i] = "done"]
         /\ pixBytes' = [pixBytes EXCEPT ![i] = PixelVec(sum[i])]
         /\ segs' = segs \cup {[lo |-> i, hi |-> i + 1, bytes |-> PixelVec(sum[i])]}
    /\ UNCHANGED <<imgW, imgH, rng, thr, nStarted, nDone, sum, buffer, renderPc,
                   genTasks, prevBuffer>>
    /\ UNCHANGED notRenderVars

\* collect joins two neighbouring runs (line 184)
Collect ==
    /\ renderPc = "render"
    /\ \E a \in segs, b \in segs :
         /\ a.hi = b.lo
         /\ segs' = (segs \ {a, b}) \cup {Combine(a, b)}
    /\ UNCHANGED <<imgW, imgH, rng, thr, pix, nStarted, nDone, sum, buffer, renderPc,
                   pixBytes, genTasks, prevBuffer>>
    /\ UNCHANGED notRenderVars

\* the whole range is one run: the buffer goes to image::save_buffer (line 185)
Save ==
    /\ renderPc = "render"
    /\ \E a \in segs :
         /\ a.lo = 0 /\ a.hi = nPixels
         /\ buffer' = a.bytes
    /\ renderPc' = "saved"
    /\ UNCHANGED <<imgW, imgH, rng, thr, pix, nStarted, nDone, sum, segs,
                   pixBytes, genTasks, prevBuffer>>
    /\ UNCHANGED notRenderVars

RenderNext ==
    PixelStart \/ SampleBegin \/ SampleEnd \/ PixelEnd \/ Collect \/ Save

\* the program is run a second time on the same configuration: the buffer of
\* the first run is kept for comparison
Rerun ==
    /\ renderPc = "saved"
    /\ prevBuffer = <<>>
    /\ prevBuffer' = buffer
    /\ rng' \in [Threads -> RngStates]      \* seeded from the system's entropy
    /\ thr' = [t \in Threads |-> NoSample]
    /\ pix' = [i \in Pixels |-> "todo"]
    /\ nStarted' = [i \in Pixels |-> 0]
    /\ nDone' = [i \in Pixels |-> 0]
    /\ sum' = [i \in Pixels |-> Zero3]
    /\ segs' = {} /\ buffer' = <<>> /\ renderPc' = "render"
    /\ pixBytes' = [i \in Pixels |-> <<>>]
    /\ genTasks' = [t \in Threads |-> 0]
    /\ UNCHANGED <<imgW, imgH>>
    /\ UNCHANGED notRenderVars

RerunNext ==
    PixelStart \/ SampleBegin \/ SampleEnd \/ PixelEnd \/ Collect \/ Save \/ Rerun

----------------------------------------------------------------------------
(* Tokens: the words str::split_whitespace and str::split('/') yield *)

NumTokens == {"0", "1", "x"}
PosTokens == {"-2", "-1", "0", "1", "2", "", "x"}   \* first word of a reference
IdxTokens == {"-1", "0", "1", "2", ""}              \* second and third word

\* s.parse::<f32>().ok()
parse_f32(s) ==
    CASE s = "0" -> Some(0)
      [] s = "1" -> Some(1)
      [] OTHER   -> None

\* s.parse::<isize>().ok()
parse_isize(s) ==
    CASE s = "-2" -> Some(-2)
      [] s = "-1" -> Some(-1)
      [] s = "0"  -> Some(0)
      [] s = "1"  -> Some(1)
      [] s = "2"  -> Some(2)
      [] OTHER    -> None

RECURSIVE filter_map_f32(_)
\* iter.filter_map(|s| s.parse::<f32>().ok()): the parsable tokens, in order
filter_map_f32(toks) ==
    IF toks = <<>> THEN <<>>
    ELSE LET r == parse_f32(Head(toks))
         IN (IF IsSome(r) THEN <<Unwrap(r)>> ELSE <<>>) \o filter_map_f32(Tail(toks))

parse_vec3(toks) ==
    LET it == filter_map_f32(toks)
    IN IF Len(it) < 3 THEN None ELSE Some(<<it[1], it[2], it[3]>>)

parse_uv(toks) ==
    LET it == filter_map_f32(toks)
    IN IF Len(it) < 2 THEN None ELSE Some(<<it[1], it[2]>>)

----------------------------------------------------------------------------
(* index_wrap.  A result is [panic |-> BOOLEAN, val |-> the element]        *)

Panicked == [panic |-> TRUE, val |-> <<>>]
Returned(x) == [panic |-> FALSE, val |-> x]

\* i as usize - 1: the subtraction overflows for i = 0; a debug build panics
\* there, a release build wraps to usize::MAX and the index is out of bounds
UsizeSub1(i) == IF i = 0 THEN UsizeMax ELSE i - 1

\* vec[k] with k a 0-based usize: a panic when k is out of bounds
VecIndex(vec, k) == IF k < Len(vec) THEN Returned(vec[k + 1]) ELSE Panicked

\* mutant of index_wrap: the non-negative branch forgets the 1-based offset
index_wrap_off(i, vec) ==
    IF i < 0 THEN VecIndex(vec, Len(vec) - i)
    ELSE VecIndex(vec, i)

\* mutant of index_wrap: an out-of-range index is clamped into the vector
index_wrap_clamp(i, vec) ==
    IF vec = <<>> THEN Panicked
    ELSE IF i < 0 THEN Returned(vec[Len(vec)])
    ELSE IF i = 0 THEN Returned(vec[1])
    ELSE IF i > Len(vec) THEN Returned(vec[Len(vec)])
    ELSE Returned(vec[i])

index_wrap(i, vec) ==
    IF i < 0 THEN VecIndex(vec, Len(vec) - i)
    ELSE VecIndex(vec, UsizeSub1(i))

----------------------------------------------------------------------------
(* parse_triangle *)

Zero2 == <<0, 0>>                       \* glm::zero::<Vec2>()

Sub3(a, b) == <<a[1] - b[1], a[2] - b[2], a[3] - b[3]>>
Cross(a, b) == <<a[2] * b[3] - a[3] * b[2],
                 a[3] * b[1] - a[1] * b[3],
                 a[1] * b[2] - a[2] * b[1]>>

\* e1.cross(&e2).normalize(): the direction, marked as normalised
triangle_normal(p1, p2, p3) ==
    [normalized |-> TRUE, v |-> Cross(Sub3(p2, p1), Sub3(p3, p1))]

\* a vertex reference is the sequence of words s.split('/') yields: never empty
RefSet ==
    {<<p>> : p \in PosTokens}
      \cup {<<p, c>> : p \in PosTokens, c \in IdxTokens}
      \cup {<<p, c, n>> : p \in PosTokens, c \in IdxTokens, n \in IdxTokens}

\* cmps.next().and_then(|s| s.parse::<isize>().ok()) for the k-th word
RefIndex(ref, k) == IF k <= Len(ref) THEN parse_isize(ref[k]) ELSE None

\* mutant of EvalRef: a missing position falls back to the first vertex
\* instead of .expect(..)
EvalRef_default(ref, vs, cs, ns) ==
    LET pi == RefIndex(ref, 1)
        ci == RefIndex(ref, 2)
        ni == RefIndex(ref, 3)
        pos == IF IsSome(pi) THEN index_wrap(Unwrap(pi), vs)
               ELSE Returned(<<0, 0, 0>>)
        coord == IF IsSome(ci) THEN index_wrap(Unwrap(ci), cs) ELSE Returned(Zero2)
        norm == IF IsSome(ni) THEN index_wrap(Unwrap(ni), ns) ELSE Returned(<<>>)
    IN IF pos.panic \/ coord.panic \/ norm.panic THEN Panicked
       ELSE Returned([pos |-> pos.val, coord |-> coord.val,
                      norm |-> IF IsSome(ni) THEN Some(norm.val) ELSE None])

\* the closure of iter.map: one reference to (pos, coord, norm), or a panic
EvalRef(ref, vs, cs, ns) ==
    LET pi == RefIndex(ref, 1)
        ci == RefIndex(ref, 2)
        ni == RefIndex(ref, 3)
        pos == IF IsSome(pi) THEN index_wrap(Unwrap(pi), vs)
               ELSE Panicked      \* "Position required for triangle definition"
        coord == IF IsSome(ci) THEN index_wrap(Unwrap(ci), cs) ELSE Returned(Zero2)
        norm == IF IsSome(ni) THEN index_wrap(Unwrap(ni), ns) ELSE Returned(<<>>)
    IN IF pos.panic \/ coord.panic \/ norm.panic THEN Panicked
       ELSE Returned([pos |-> pos.val, coord |-> coord.val,
                      norm |-> IF IsSome(ni) THEN Some(norm.val) ELSE None])

\* make_vertex: the per-vertex normal, or the flat normal of the triangle
make_vertex(t, flat) ==
    [pos |-> t.pos, uv |-> t.coord,
     normal |-> IF IsSome(t.norm)
                THEN [normalized |-> FALSE, v |-> Unwrap(t.norm)]
                ELSE flat]

\* Triangle::new(make_vertex(..), make_vertex(..), make_vertex(..))
MakeTriangle(acc) ==
    LET flat == triangle_normal(acc[1].pos, acc[2].pos, acc[3].pos)
    IN <<make_vertex(acc[1], flat), make_vertex(acc[2], flat), make_vertex(acc[3], flat)>>

----------------------------------------------------------------------------
(* History of one reference: the index_wrap calls its closure makes, in the *)
(* order pos, coord, norm, up to and including the first that panics        *)

Call(kind, i, vec) ==
    LET r == index_wrap(i, vec)
    IN [kind |-> kind, i |-> i, vec |-> vec, panic |-> r.panic, val |-> r.val]

RefCalls(ref, vs, cs, ns) ==
    LET pi == RefIndex(ref, 1)
        ci == RefIndex(ref, 2)
        ni == RefIndex(ref, 3)
        c1 == IF IsSome(pi) THEN <<Call("v", Unwrap(pi), vs)>> ELSE <<>>
        c2 == IF IsSome(ci) THEN <<Call("vt", Unwrap(ci), cs)>> ELSE <<>>
        c3 == IF IsSome(ni) THEN <<Call("vn", Unwrap(ni), ns)>> ELSE <<>>
    IN IF ~IsSome(pi) THEN <<>>
       ELSE IF c1[1].panic THEN c1
       ELSE IF c2 # <<>> /\ c2[1].panic THEN c1 \o c2
       ELSE c1 \o c2 \o c3

OutOfRange(i, n) == i = 0 \/ i > n \/ i < -n

\* some word of the reference parses to an index outside its list
RefOutOfRange(ref, vs, cs, ns) ==
    \/ IsSome(RefIndex(ref, 1)) /\ OutOfRange(Unwrap(RefIndex(ref, 1)), Len(vs))
    \/ IsSome(RefIndex(ref, 2)) /\ OutOfRange(Unwrap(RefIndex(ref, 2)), Len(cs))
    \/ IsSome(RefIndex(ref, 3)) /\ OutOfRange(Unwrap(RefIndex(ref, 3)), Len(ns))

NoRef == [calls |-> <<>>, oor |-> FALSE, nopos |-> FALSE, panic |-> FALSE]

----------------------------------------------------------------------------
(* load: one action per line of the file; a face line is read reference by  *)
(* reference, as its lazy iterator is                                       *)

\* the words after the keyword: up to MaxTokens of them, any of them
\* unparsable, the numbers of one line all the same
TokSeqs ==
    {toks \in UNION {[1..n -> NumTokens] : n \in 0..MaxTokens} :
        \A j, k \in 1..Len(toks) :
            toks[j] # "x" /\ toks[k] # "x" => toks[j] = toks[k]}

HasBadToken(toks) == \E k \in 1..Len(toks) : parse_f32(toks[k]) = None

NoRec == [kind |-> "none", bad |-> FALSE, pushed |-> FALSE]

LoadInit ==
    /\ verts = <<>> /\ coords = <<>> /\ norms = <<>> /\ tris = <<>>
    /\ loadPc = "line" /\ nLines = 0
    /\ faceAcc = <<>> /\ faceIdx = <<>> /\ trisSrc = <<>>
    /\ lastRef = NoRef
    /\ lastFace = [outcome |-> "none", nrefs |-> 0, ntris |-> 0]
    /\ lastRec = NoRec
    /\ TraceIdle
    /\ RenderIdle

NoFace == [outcome |-> "none", nrefs |-> 0, ntris |-> 0]

\* the loop takes the next line of the text; lastRef and lastFace describe
\* the latest step only
NextLine ==
    /\ loadPc = "line"
    /\ nLines < MaxLines
    /\ nLines' = nLines + 1
    /\ lastRef' = NoRef
    /\ lastFace' = NoFace

\* Some("v")
LoadV ==
    /\ NextLine
    /\ \E toks \in TokSeqs :
         LET r == parse_vec3(toks)
         IN /\ verts' = IF IsSome(r) THEN Append(verts, Unwrap(r)) ELSE verts
            /\ lastRec' = [kind |-> "v", bad |-> HasBadToken(toks), pushed |-> IsSome(r)]
    /\ UNCHANGED <<coords, norms, tris, loadPc, faceAcc, faceIdx, trisSrc>>
    /\ UNCHANGED notLoadVars

\* Some("vt")
LoadVt ==
    /\ NextLine
    /\ \E toks \in TokSeqs :
         LET r == parse_uv(toks)
         IN /\ coords' = IF IsSome(r) THEN Append(coords, Unwrap(r)) ELSE coords
            /\ lastRec' = [kind |-> "vt", bad |-> HasBadToken(toks), pushed |-> IsSome(r)]
    /\ UNCHANGED <<verts, norms, tris, loadPc, faceAcc, faceIdx, trisSrc>>
    /\ UNCHANGED notLoadVars

\* Some("vn")
LoadVn ==
    /\ NextLine
    /\ \E toks \in TokSeqs :
         LET r == parse_vec3(toks)
         IN /\ norms' = IF IsSome(r) THEN Append(norms, Unwrap(r)) ELSE norms
            /\ lastRec' = [kind |-> "vn", bad |-> HasBadToken(toks), pushed |-> IsSome(r)]
    /\ UNCHANGED <<verts, coords, tris, loadPc, faceAcc, faceIdx, trisSrc>>
    /\ UNCHANGED notLoadVars

\* a line that starts with '#' (filtered out), an empty line or any other
\* keyword (_ => ()): nothing is pushed
LoadOther ==
    /\ NextLine
    /\ lastRec' = NoRec
    /\ UNCHANGED <<verts, coords, norms, tris, loadPc, faceAcc, faceIdx, trisSrc>>
    /\ UNCHANGED notLoadVars

\* Some("f"): parse_triangle is entered
FaceStart ==
    /\ NextLine
    /\ loadPc' = "face"
    /\ faceAcc' = <<>> /\ faceIdx' = <<>>
    /\ lastRec' = NoRec
    /\ UNCHANGED <<verts, coords, norms, tris, trisSrc>>
    /\ UNCHANGED notLoadVars

\* iter.next()? yields a reference: the closure runs on it; the third one
\* completes the triangle, which load pushes
FaceRef ==
    /\ loadPc = "face"
    /\ Len(faceAcc) < 3
    /\ \E ref \in RefSet :
         LET r == EvalRef(ref, verts, coords, norms)
             idx == Append(faceIdx, <<RefIndex(ref, 1), RefIndex(ref, 2), RefIndex(ref, 3)>>)
             acc == Append(faceAcc, r.val)
         IN /\ lastRef' = [calls |-> RefCalls(ref, verts, coords, norms),
                           oor |-> RefOutOfRange(ref, verts, coords, norms),
                           nopos |-> ~IsSome(RefIndex(ref, 1)),
                           panic |-> r.panic]
            /\ IF r.panic
               THEN \* the panic unwinds load: its vectors are dropped
                    /\ loadPc' = "panic"
                    /\ lastFace' = [outcome |-> "panic", nrefs |-> Len(faceAcc),
                                    ntris |-> Len(tris)]
                    /\ verts' = <<>> /\ coords' = <<>> /\ norms' = <<>>
                    /\ tris' = <<>> /\ trisSrc' = <<>>
                    /\ faceAcc' = <<>> /\ faceIdx' = <<>>
               ELSE IF Len(acc) = 3
               THEN /\ tris' = Append(tris, MakeTriangle(acc))
                    /\ trisSrc' = Append(trisSrc,
                          [idx |-> idx, nv |-> Len(verts), nt |-> Len(coords),
                           nn |-> Len(norms)])
                    /\ lastFace' = [outcome |-> "tri", nrefs |-> 3, ntris |-> Len(tris)]
                    /\ loadPc' = "line"
                    /\ faceAcc' = <<>> /\ faceIdx' = <<>>
                    /\ UNCHANGED <<verts, coords, norms>>
               ELSE /\ faceAcc' = acc /\ faceIdx' = idx
                    /\ UNCHANGED <<verts, coords, norms, tris, trisSrc, lastFace, loadPc>>
    /\ UNCHANGED <<nLines, lastRec>>
    /\ UNCHANGED notLoadVars

\* iter.next()? finds the line exhausted before the third reference: None
FaceEnd ==
    /\ loadPc = "face"
    /\ Len(faceAcc) < 3
    /\ lastFace' = [outcome |-> "skip", nrefs |-> Len(faceAcc), ntris |-> Len(tris)]
    /\ loadPc' = "line"
    /\ faceAcc' = <<>> /\ faceIdx' = <<>>
    /\ UNCHANGED <<verts, coords, norms, tris, nLines, trisSrc, lastRef, lastRec>>
    /\ UNCHANGED notLoadVars

\* the text is exhausted: Ok(tris)
LoadReturn ==
    /\ loadPc = "line"
    /\ loadPc' = "ok"
    /\ UNCHANGED <<verts, coords, norms, tris, nLines, faceAcc, faceIdx, trisSrc,
                   lastRef, lastFace, lastRec>>
    /\ UNCHANGED notLoadVars

LoadNext ==
    \/ LoadV \/ LoadVt \/ LoadVn \/ LoadOther
    \/ FaceStart \/ FaceRef \/ FaceEnd \/ LoadReturn

SpecLoad == LoadInit /\ [][LoadNext]_vars

\* load is not running
LoadIdle ==
    /\ verts = <<>> /\ coords = <<>> /\ norms = <<>> /\ tris = <<>>
    /\ loadPc = "ok" /\ nLines = 0
    /\ faceAcc = <<>> /\ faceIdx = <<>> /\ trisSrc = <<>>
    /\ lastRef = NoRef /\ lastFace = NoFace /\ lastRec = NoRec

TraceSpecInit == TraceInit /\ LoadIdle /\ RenderIdle

SpecTrace == TraceSpecInit /\ [][TraceNext]_vars

RenderSpecInit == RenderInit /\ LoadIdle /\ TraceIdle

SpecRender == RenderSpecInit /\ [][RenderNext]_vars

\* two runs of the program, one after the other
SpecRerun == RenderSpecInit /\ [][RerunNext]_vars

----------------------------------------------------------------------------
(* Properties of the loader *)

LastCalls == {lastRef.calls[k] : k \in 1..Len(lastRef.calls)}

\* the k-th triangle's j-th corner was resolved from these three indices
TriIdx(k, j) == trisSrc[k].idx[j]

\* C4: for a list of length n and a negative index i with -n <= i <= -1,
\* index_wrap(i, list) returns the element at 0-based position n + i,
\* counted back from the end of the list (i = -1 is the last element).
C4_NegativeCountsBack ==
    \A c \in LastCalls :
        (c.i < 0 /\ -Len(c.vec) <= c.i)
            => /\ ~c.panic
               /\ c.val = c.vec[Len(c.vec) + c.i + 1]

\* C5: an index i with 1 <= i <= n, n the length of the list when the face
\* is parsed, resolves to the i-th record of that list (0-based i - 1), for
\* positions, texture coordinates and normals; a triangle keeps exactly those
\* elements, all of them declared before its face line.
C5_PositiveIndexOneBased ==
    /\ \A c \in LastCalls :
          (1 <= c.i /\ c.i <= Len(c.vec)) => ~c.panic /\ c.val = c.vec[c.i]
    /\ \A k \in 1..Len(tris) : \A j \in 1..3 :
          LET pi == TriIdx(k, j)[1]
              ci == TriIdx(k, j)[2]
              ni == TriIdx(k, j)[3]
          IN /\ (IsSome(pi) /\ 1 <= Unwrap(pi) /\ Unwrap(pi) <= trisSrc[k].nv)
                   => tris[k][j].pos = verts[Unwrap(pi)]
             /\ (IsSome(ci) /\ 1 <= Unwrap(ci) /\ Unwrap(ci) <= trisSrc[k].nt)
                   => tris[k][j].uv = coords[Unwrap(ci)]
             /\ (IsSome(ni) /\ 1 <= Unwrap(ni) /\ Unwrap(ni) <= trisSrc[k].nn)
                   => tris[k][j].normal = [normalized |-> FALSE, v |-> norms[Unwrap(ni)]]

\* a triangle whose first corner is the second of two different positions
C5_Witness ==
    /\ Len(tris) >= 1
    /\ TriIdx(1, 1)[1] = Some(2)
    /\ verts[1] # verts[2]
    /\ tris[1][1].pos = verts[2]

IndexInRange(o, n) == IsSome(o) => ~OutOfRange(Unwrap(o), n)

\* C6: a reference among the first three of a face with an out-of-range
\* index (0, above n, below -n) for its position, texture coordinate or
\* normal makes the load panic; no triangle is ever built from such a face.
C6_OutOfRangeIsFatal ==
    /\ lastRef.oor => loadPc = "panic" /\ lastRef.panic
    /\ loadPc = "panic" => tris = <<>>
    /\ \A k \in 1..Len(tris) : \A j \in 1..3 :
          /\ IndexInRange(TriIdx(k, j)[1], trisSrc[k].nv)
          /\ IndexInRange(TriIdx(k, j)[2], trisSrc[k].nt)
          /\ IndexInRange(TriIdx(k, j)[3], trisSrc[k].nn)

\* the second reference of a face has an index above the length of its list,
\* after a first reference that resolved
C6_Witness ==
    /\ loadPc = "panic"
    /\ lastRef.oor /\ ~lastRef.nopos
    /\ lastFace.nrefs = 1
    /\ \E c \in LastCalls : c.i > Len(c.vec) /\ c.vec # <<>>

\* C7: a v, vt or vn record with an unparsable numeric token is skipped as a
\* whole or fails the load; it is never accepted.
C7_BadRecordNeverAccepted ==
    (lastRec.kind \in {"v", "vt", "vn"} /\ lastRec.bad) => ~lastRec.pushed

\* C8: every triangle of the list comes from a face that yielded three
\* references with a position index each, and its three positions are
\* elements of verts as declared before the face; a face with fewer than
\* three references yields no triangle; a reference without a parsable
\* position fails the load.
C8_TrianglesHavePositions ==
    /\ Len(trisSrc) = Len(tris)
    /\ \A k \in 1..Len(tris) :
          /\ Len(trisSrc[k].idx) = 3
          /\ \A j \in 1..3 :
                /\ IsSome(TriIdx(k, j)[1])
                /\ \E m \in 1..trisSrc[k].nv : tris[k][j].pos = verts[m]
    /\ lastFace.outcome = "skip" => lastFace.nrefs < 3 /\ Len(tris) = lastFace.ntris
    /\ lastFace.outcome = "tri" => lastFace.nrefs = 3 /\ Len(tris) = lastFace.ntris + 1
    /\ lastRef.nopos => loadPc = "panic"

\* load returns a list with a triangle in it
C8_Witness ==
    /\ loadPc = "ok"
    /\ Len(tris) >= 1
    /\ Len(verts) = 2

----------------------------------------------------------------------------
(* Properties of trace *)

\* C2: trace(r, scene, d) terminates.  Every call makes at most one
\* recursive call, with depth - 1: at most d recursive calls are ever nested,
\* at most d scene queries are made, the outermost call returns within
\* 2d + 2 steps and is never stuck before; a call with depth 0 returns zero
\* radiance without a scene query.
C2_TraceTerminates ==
    /\ Len(trStack) <= trD0
    /\ \A k \in 1..Len(trStack) : trStack[k].depth = trD0 - (k - 1)
    /\ trPc = "call" => trDepth = trD0 - Len(trStack)
    /\ trCalls <= trD0 + 1
    /\ trQueries <= trD0
    /\ trSteps <= 2 * trD0 + 2
    /\ trPc # "done" => ENABLED TraceNext
    /\ trPc = "call" => trQueries = trCalls - 1
    /\ (trPc = "ret" /\ trDepth = 0) => trRet = Zero3 /\ trQueries = trCalls - 1
    /\ (trD0 = 0 /\ trPc = "done") => trRet = Zero3 /\ trQueries = 0

\* a trace of the full depth that hit a surface at every level has returned
C2_Witness ==
    /\ trPc = "done"
    /\ trD0 = MaxDepth
    /\ trCalls = trD0 + 1
    /\ trQueries = trD0
    /\ trSteps = 2 * trD0 + 2

\* C3: a trace call at depth 1 whose ray hits a surface returns exactly the
\* emission of that surface's material: the incident radiance of the
\* recursive call (depth 0) is zero, the reflected term is zero and the
\* emission is added once.
C3_EmissionAtDepthOne ==
    /\ (trD0 = 1 /\ trPc = "ret" /\ Len(trStack) = 1) => trRet = Zero3
    /\ (trD0 = 1 /\ trFirst.hit /\ trStack = <<>> /\ trPc \in {"ret", "done"})
          => trRet = trFirst.mat.emission

\* a depth-1 trace that hit an emissive surface has returned
C3_Witness ==
    /\ trD0 = 1
    /\ trPc = "done"
    /\ trFirst.hit
    /\ trFirst.mat.emission # Zero3
    /\ trRet = trFirst.mat.emission

----------------------------------------------------------------------------
(* Properties of the sampling driver *)

\* the bytes of pixel i sit at 3 * (i - lo) + 1 .. 3 * (i - lo) + 3 of a
\* run that starts at pixel lo (sequences are 1-based)
HoldsPixels(bytes, lo, hi) ==
    /\ Len(bytes) = 3 * (hi - lo)
    /\ \A i \in lo..(hi - 1) : \A c \in 1..3 :
          bytes[3 * (i - lo) + c] = pixBytes[i][c]

\* C1: for any w and h and under every interleaving of the pixel closures,
\* the buffer has w * h * 3 bytes and the (R, G, B) of pixel index i are at
\* the byte offsets 3i, 3i + 1, 3i + 2; no two pixels contribute to the same
\* offset.
C1_BufferLayout ==
    /\ \A a \in segs : HoldsPixels(a.bytes, a.lo, a.hi)
    /\ \A a \in segs : \A b \in segs \ {a} : a.hi <= b.lo \/ b.hi <= a.lo
    /\ \A i \in DOMAIN pix : pix[i] = "done" => pixBytes[i] = PixelVec(sum[i])
    /\ (renderPc = "saved" /\ nPixels > 0)
          => /\ Len(buffer) = imgW * imgH * 3
             /\ HoldsPixels(buffer, 0, nPixels)

\* a buffer of two pixels of different colours has been collected
C1_Witness ==
    /\ renderPc = "saved"
    /\ nPixels = 2
    /\ Len(buffer) = 6
    /\ pixBytes[0] # pixBytes[1]

\* C9: no generator is used by two sample closures that run at the same
\* time, and no generator is shared across sample closures: each closure
\* draws its two offsets from a generator no other closure draws from.
C9_PrivateStreams ==
    /\ \A t1 \in Threads : \A t2 \in Threads \ {t1} :
          (~Free(t1) /\ ~Free(t2)) => RngOf(t1) # RngOf(t2)
    /\ \A g \in Threads : genTasks[g] <= 1

\* C10: two renders of the same configuration yield the same byte buffer,
\* however the closures are scheduled.
C10_SameBuffer ==
    (renderPc = "saved" /\ prevBuffer # <<>>) => buffer = prevBuffer

====
